---- MODULE Spec2Model ----
(***************************************************************************)
(* Model of cmd/machine-api-migration/main.go: the conditional startup     *)
(* handshake of the machine-api-migration manager.                         *)
(*                                                                         *)
(* main is one sequential process whose position is pc.  The feature-gate  *)
(* accessor and the informer factory are goroutines started by             *)
(* getFeatureGates; the OS signal handler, the runtime timer behind        *)
(* time.After and the cluster's FeatureGate object are the environment.    *)
(*                                                                         *)
(* The select statement of getFeatureGates is modelled as the Go runtime   *)
(* executes it: on entry it polls its channels and parks when none is      *)
(* ready; the first channel operation that finds the goroutine parked      *)
(* claims it, and a later operation on the other channel has no effect.    *)
(* Time is measured by the timer of time.After, in seconds.                *)
(***************************************************************************)
EXTENDS Integers, FiniteSets

\* time.After(1 * time.Minute), in seconds
Timeout == 60

\* features.FeatureGateMachineAPIMigration
MachineAPIMigration == "MachineAPIMigration"

\* The feature-gate set of the cluster: the gate main branches on, and one
\* gate standing for every other gate of the FeatureGate object.
Features == {MachineAPIMigration, "OtherGate"}

NoExit == -1

\* util.LeaseDuration, util.RenewDeadline, util.RetryPeriod, in seconds
LeaseDuration == 137
RenewDeadline == 107
RetryPeriod == 26

\* leaderElectionConfig as main builds it before the flags are parsed
DefaultLeaderElectionConfig ==
    [LeaderElect |-> TRUE,
     LeaseDuration |-> LeaseDuration,
     RenewDeadline |-> RenewDeadline,
     RetryPeriod |-> RetryPeriod,
     ResourceName |-> "machine-api-migration-leader",
     ResourceNamespace |-> "openshift-cluster-api"]

\* The command lines considered: no leader-election flag, and one command
\* line for each flag that options.BindLeaderElectionFlags binds to
\* leaderElectionConfig (--leader-elect, --leader-elect-lease-duration with
\* --leader-elect-renew-deadline, --leader-elect-resource-name,
\* --leader-elect-resource-namespace).
CommandLines ==
    { DefaultLeaderElectionConfig,
      [DefaultLeaderElectionConfig EXCEPT !.LeaderElect = FALSE],
      [DefaultLeaderElectionConfig EXCEPT !.LeaseDuration = 1, !.RenewDeadline = 2],
      [DefaultLeaderElectionConfig EXCEPT !.ResourceName = "other-leader"],
      [DefaultLeaderElectionConfig EXCEPT !.ResourceNamespace = "other-namespace"] }

\* the zero value of the leader-election fields of ctrl.Options
NoOptions ==
    [LeaderElection |-> FALSE,
     LeaderElectionID |-> "",
     LeaderElectionNamespace |-> "",
     LeaseDuration |-> 0,
     RenewDeadline |-> 0,
     RetryPeriod |-> 0]

VARIABLES
    pc,                  \* position of main
    exitCode,            \* argument of os.Exit, NoExit while the process lives
    exitFrom,            \* position of main when os.Exit was called
    err,                 \* the error main has received, "none" if none
    mgrConstructed,      \* ctrl.NewManager has returned a manager
    handlerInstalled,    \* ctrl.SetupSignalHandler has been called
    stopFired,           \* the context `stop` is cancelled
    stopFiredAt,         \* position of main when `stop` was cancelled
    accessorRunning,     \* goroutine featureGateAccessor.Run is alive
    informersRunning,    \* goroutine configInformers.Start is alive
    initialObserved,     \* channel InitialFeatureGatesObserved() is closed
    snapshot,            \* the accessor's current feature gates
    clusterGates,        \* the enabled gates of the cluster's FeatureGate object
    timerStarted,        \* time.After has been evaluated
    elapsed,             \* seconds since the timer was started
    selected,            \* the case that claimed the select: none/observed/timeout
    observedInTime,      \* the initial observation happened before the deadline
    featureGateAccessor, \* main's variable: "nil" or "accessor"
    currentFeatureGates, \* main's variable: the snapshot main has read
    gatesRead,           \* main has read currentFeatureGates
    healthzChecks,       \* names registered with mgr.AddHealthzCheck
    readyzChecks,        \* names registered with mgr.AddReadyzCheck
    probeServing,        \* the manager serves /healthz and /readyz
    leader,              \* the manager holds the lease and runs reconcilers
    leaderElectionConfig, \* main's variable, bound to the leader-election flags
    mgrOptions           \* the leader-election options the manager was built with

vars == <<pc, exitCode, exitFrom, err, mgrConstructed, handlerInstalled, stopFired,
          accessorRunning, informersRunning, initialObserved, snapshot,
          clusterGates, timerStarted, elapsed, selected, observedInTime,
          featureGateAccessor, currentFeatureGates, gatesRead,
          healthzChecks, readyzChecks, probeServing, leader,
          leaderElectionConfig, mgrOptions, stopFiredAt>>

\* the leader-election configuration
flagVars == <<leaderElectionConfig, mgrOptions>>

\* the variables of the environment and of the background goroutines
probeVars == <<initialObserved, snapshot, clusterGates, timerStarted, elapsed,
               selected, observedInTime>>

\* what the manager has been given before it is started
mgrRegs == <<mgrConstructed, healthzChecks, readyzChecks>>

\* the goroutines of the process besides main
taskVars == <<accessorRunning, informersRunning, probeServing, leader>>

\* the outcome of the process
exitVars == <<exitCode, exitFrom>>

\* the variables main assigns after the probe
gateVars == <<featureGateAccessor, currentFeatureGates, gatesRead>>

Init ==
    /\ pc = "init"
    /\ exitCode = NoExit
    /\ exitFrom = "none"
    /\ err = "none"
    /\ mgrConstructed = FALSE
    /\ handlerInstalled = FALSE
    /\ stopFired = FALSE
    /\ stopFiredAt = "none"
    /\ accessorRunning = FALSE
    /\ informersRunning = FALSE
    /\ initialObserved = FALSE
    /\ snapshot = {}
    /\ clusterGates \in SUBSET Features
    /\ timerStarted = FALSE
    /\ elapsed = 0
    /\ selected = "none"
    /\ observedInTime = FALSE
    /\ featureGateAccessor = "nil"
    /\ currentFeatureGates = {}
    /\ gatesRead = FALSE
    /\ healthzChecks = {}
    /\ readyzChecks = {}
    /\ probeServing = FALSE
    /\ leader = FALSE
    /\ leaderElectionConfig = DefaultLeaderElectionConfig
    /\ mgrOptions = NoOptions

\* os.Exit(code): the process and all of its goroutines end.
Exit(code) ==
    /\ pc' = "exited"
    /\ exitCode' = code
    /\ exitFrom' = pc
    /\ accessorRunning' = FALSE
    /\ informersRunning' = FALSE
    /\ probeServing' = FALSE
    /\ leader' = FALSE

\* The error is logged and the process exits with code 0.
FailExitZero(e) ==
    /\ err' = e
    /\ Exit(0)

\* `if err != nil { klog.Error(...); os.Exit(1) }`
Fail(e) ==
    /\ err' = e
    /\ Exit(1)

(***************************************************************************)
(* main, lines 57-136                                                      *)
(***************************************************************************)

\* pflag.Parse(): the leader-election flags of the command line overwrite
\* the fields of leaderElectionConfig they are bound to.
ParseFlags ==
    /\ UNCHANGED stopFiredAt
    /\ pc = "init"
    /\ \E cmd \in CommandLines : leaderElectionConfig' = cmd
    /\ pc' = "parsed"
    /\ UNCHANGED <<exitVars, err, handlerInstalled, stopFired, taskVars,
                   probeVars, gateVars, mgrRegs, mgrOptions>>

\* the leader-election fields of the ctrl.Options literal
ManagerOptions(c) ==
    [LeaderElection |-> c.LeaderElect,
     LeaderElectionID |-> c.ResourceName,
     LeaderElectionNamespace |-> c.ResourceNamespace,
     LeaseDuration |-> c.LeaseDuration,
     RenewDeadline |-> c.RenewDeadline,
     RetryPeriod |-> c.RetryPeriod]

\* The renew deadline and the retry period are passed in each other's place.
NewManagerSwapped ==
    /\ UNCHANGED stopFiredAt
    /\ pc = "parsed"
    /\ \E ok \in BOOLEAN :
          IF ok
          THEN /\ mgrConstructed' = TRUE
               /\ mgrOptions' =
                      [ManagerOptions(leaderElectionConfig) EXCEPT
                          !.RenewDeadline = leaderElectionConfig.RetryPeriod,
                          !.RetryPeriod = leaderElectionConfig.RenewDeadline]
               /\ pc' = "configured"
               /\ UNCHANGED <<exitVars, err, taskVars>>
          ELSE /\ Fail("manager")
               /\ UNCHANGED <<mgrConstructed, mgrOptions>>
    /\ UNCHANGED <<handlerInstalled, stopFired, probeVars, gateVars,
                   healthzChecks, readyzChecks, leaderElectionConfig>>

\* mgr, err := ctrl.NewManager(cfg, ctrl.Options{...})
NewManager ==
    /\ UNCHANGED stopFiredAt
    /\ pc = "parsed"
    /\ \E ok \in BOOLEAN :
          IF ok
          THEN /\ mgrConstructed' = TRUE
               /\ mgrOptions' = ManagerOptions(leaderElectionConfig)
               /\ pc' = "configured"
               /\ UNCHANGED <<exitVars, err, taskVars>>
          ELSE /\ Fail("manager")
               /\ UNCHANGED <<mgrConstructed, mgrOptions>>
    /\ UNCHANGED <<handlerInstalled, stopFired, probeVars, gateVars,
                   healthzChecks, readyzChecks, leaderElectionConfig>>

\* The handler is installed only after the feature-gate branch.
SetupSignalHandlerLate ==
    /\ UNCHANGED stopFiredAt
    /\ UNCHANGED flagVars
    /\ pc = "configured"
    /\ pc' = "probeClient"
    /\ UNCHANGED <<exitVars, err, handlerInstalled, stopFired, taskVars,
                   probeVars, gateVars, mgrRegs>>

\* stop := ctrl.SetupSignalHandler()
SetupSignalHandler ==
    /\ UNCHANGED stopFiredAt
    /\ UNCHANGED flagVars
    /\ pc = "configured"
    /\ handlerInstalled' = TRUE
    /\ pc' = "probeClient"
    /\ UNCHANGED <<exitVars, err, stopFired, taskVars, probeVars, gateVars,
                   mgrRegs>>

\* The background tasks were started with the context `stop`.
SignalCancelsTasks ==
    /\ UNCHANGED flagVars
    /\ pc # "exited"
    /\ handlerInstalled
    /\ ~stopFired
    /\ stopFired' = TRUE
    /\ stopFiredAt' = pc
    /\ accessorRunning' = FALSE
    /\ informersRunning' = FALSE
    /\ UNCHANGED <<pc, exitVars, err, handlerInstalled, probeServing, leader,
                   probeVars, gateVars, mgrRegs>>

\* The OS delivers a termination signal: the handler cancels `stop`.
Signal ==
    /\ UNCHANGED flagVars
    /\ pc # "exited"
    /\ handlerInstalled
    /\ ~stopFired
    /\ stopFired' = TRUE
    /\ stopFiredAt' = pc
    /\ UNCHANGED <<pc, exitVars, err, handlerInstalled, taskVars, probeVars,
                   gateVars, mgrRegs>>

(***************************************************************************)
(* getFeatureGates, lines 178-208                                          *)
(***************************************************************************)

\* configClient, err := configv1client.NewForConfig(mgr.GetConfig())
\* On failure getFeatureGates returns (nil, "failed to create config client").
NewForConfig ==
    /\ UNCHANGED stopFiredAt
    /\ UNCHANGED flagVars
    /\ pc = "probeClient"
    /\ \E ok \in BOOLEAN :
          IF ok
          THEN /\ pc' = "probeSpawn"
               /\ UNCHANGED err
          ELSE /\ pc' = "probeReturned"
               /\ err' = "config"
    /\ UNCHANGED <<exitVars, handlerInstalled, stopFired, taskVars, probeVars,
                   gateVars, mgrRegs>>

\* go featureGateAccessor.Run(context.Background())
\* go configInformers.Start(context.Background().Done())
StartBackgroundTasks ==
    /\ UNCHANGED stopFiredAt
    /\ UNCHANGED flagVars
    /\ pc = "probeSpawn"
    /\ accessorRunning' = TRUE
    /\ informersRunning' = TRUE
    /\ pc' = "probeSelect"
    /\ UNCHANGED <<exitVars, err, handlerInstalled, stopFired, probeServing,
                   leader, probeVars, gateVars, mgrRegs>>

\* Entry of the select: time.After is evaluated, the channels are polled,
\* and the goroutine parks unless the observation channel is already closed.
SelectEnter ==
    /\ UNCHANGED stopFiredAt
    /\ UNCHANGED flagVars
    /\ pc = "probeSelect"
    /\ timerStarted' = TRUE
    /\ elapsed' = 0
    /\ selected' = IF initialObserved THEN "observed" ELSE "none"
    /\ pc' = "probeWait"
    /\ UNCHANGED <<exitVars, err, handlerInstalled, stopFired, taskVars,
                   initialObserved, snapshot, clusterGates, observedInTime,
                   gateVars, mgrRegs>>

\* The select has no timeout case.
TimerTickNoTimeout ==
    /\ UNCHANGED <<flagVars, stopFiredAt>>
    /\ pc # "exited"
    /\ timerStarted
    /\ elapsed < Timeout
    /\ elapsed' = elapsed + 1
    /\ UNCHANGED <<pc, exitVars, err, handlerInstalled, stopFired, taskVars,
                   initialObserved, snapshot, clusterGates, timerStarted,
                   selected, observedInTime, gateVars, mgrRegs>>

\* One second passes on the timer; at the deadline the timer sends on its
\* channel, which claims the select if main is still parked in it.
TimerTick ==
    /\ UNCHANGED stopFiredAt
    /\ UNCHANGED flagVars
    /\ pc # "exited"
    /\ timerStarted
    /\ elapsed < Timeout
    /\ elapsed' = elapsed + 1
    /\ selected' = IF elapsed' = Timeout /\ pc = "probeWait" /\ selected = "none"
                   THEN "timeout"
                   ELSE selected
    /\ UNCHANGED <<pc, exitVars, err, handlerInstalled, stopFired, taskVars,
                   initialObserved, snapshot, clusterGates, timerStarted,
                   observedInTime, gateVars, mgrRegs>>

\* The timeout case falls through to the final return.
SelectReturnAccessorAlways ==
    /\ UNCHANGED stopFiredAt
    /\ UNCHANGED flagVars
    /\ pc = "probeWait"
    /\ selected # "none"
    /\ featureGateAccessor' = "accessor"
    /\ UNCHANGED err
    /\ pc' = "probeReturned"
    /\ UNCHANGED <<exitVars, handlerInstalled, stopFired, taskVars, probeVars,
                   currentFeatureGates, gatesRead, mgrRegs>>

\* The select returns with the case that claimed it, and getFeatureGates
\* returns (featureGateAccessor, nil) or (nil, errTimedOutWaitingForFeatureGates).
SelectReturn ==
    /\ UNCHANGED stopFiredAt
    /\ UNCHANGED flagVars
    /\ pc = "probeWait"
    /\ selected # "none"
    /\ IF selected = "observed"
       THEN /\ featureGateAccessor' = "accessor"
            /\ UNCHANGED err
       ELSE /\ err' = "timeout"
            /\ UNCHANGED featureGateAccessor
    /\ pc' = "probeReturned"
    /\ UNCHANGED <<exitVars, handlerInstalled, stopFired, taskVars, probeVars,
                   currentFeatureGates, gatesRead, mgrRegs>>

(***************************************************************************)
(* The feature-gate accessor (featuregates.NewFeatureGateAccess, lines     *)
(* 189-197) and the cluster it watches                                     *)
(***************************************************************************)

\* The FeatureGate object of the cluster changes.
ClusterChange ==
    /\ UNCHANGED stopFiredAt
    /\ UNCHANGED flagVars
    /\ pc # "exited"
    /\ \E g \in (SUBSET Features) \ {clusterGates} : clusterGates' = g
    /\ UNCHANGED <<pc, exitVars, err, handlerInstalled, stopFired, taskVars,
                   initialObserved, snapshot, timerStarted, elapsed, selected,
                   observedInTime, gateVars, mgrRegs>>

\* The accessor sees its first snapshot: it stores it and closes the channel
\* InitialFeatureGatesObserved(), which claims the select if main is parked.
AccessorInitialSync ==
    /\ UNCHANGED stopFiredAt
    /\ UNCHANGED flagVars
    /\ accessorRunning
    /\ informersRunning
    /\ ~initialObserved
    /\ snapshot' = clusterGates
    /\ initialObserved' = TRUE
    /\ observedInTime' = (elapsed < Timeout)
    /\ selected' = IF pc = "probeWait" /\ selected = "none"
                   THEN "observed"
                   ELSE selected
    /\ UNCHANGED <<pc, exitVars, err, handlerInstalled, stopFired, taskVars,
                   clusterGates, timerStarted, elapsed, gateVars, mgrRegs>>

\* The accessor reloads the changed gates and keeps the process running.
AccessorChangeReload ==
    /\ UNCHANGED stopFiredAt
    /\ UNCHANGED flagVars
    /\ accessorRunning
    /\ informersRunning
    /\ initialObserved
    /\ clusterGates # snapshot
    /\ snapshot' = clusterGates
    /\ UNCHANGED <<pc, exitVars, err, handlerInstalled, stopFired, taskVars,
                   initialObserved, clusterGates, timerStarted, elapsed,
                   selected, observedInTime, gateVars, mgrRegs>>

\* "By default, this will exit(0) if the featuregates change."
AccessorChangeExit ==
    /\ UNCHANGED stopFiredAt
    /\ UNCHANGED flagVars
    /\ accessorRunning
    /\ informersRunning
    /\ initialObserved
    /\ clusterGates # snapshot
    /\ snapshot' = clusterGates
    /\ Exit(0)
    /\ UNCHANGED <<err, handlerInstalled, stopFired, initialObserved,
                   clusterGates, timerStarted, elapsed, selected,
                   observedInTime, gateVars, mgrRegs>>

(***************************************************************************)
(* main, lines 138-174                                                     *)
(***************************************************************************)

\* The error of getFeatureGates is dropped.
CheckProbeErrIgnored ==
    /\ UNCHANGED stopFiredAt
    /\ UNCHANGED flagVars
    /\ pc = "probeReturned"
    /\ pc' = "readGates"
    /\ UNCHANGED <<exitVars, err, handlerInstalled, stopFired, taskVars,
                   probeVars, gateVars, mgrRegs>>

\* featureGateAccessor, err := getFeatureGates(mgr); if err != nil { os.Exit(1) }
CheckProbeErr ==
    /\ UNCHANGED stopFiredAt
    /\ UNCHANGED flagVars
    /\ pc = "probeReturned"
    /\ IF err # "none"
       THEN Exit(1)
       ELSE /\ pc' = "readGates"
            /\ UNCHANGED <<exitVars, taskVars>>
    /\ UNCHANGED <<err, handlerInstalled, stopFired, probeVars, gateVars,
                   mgrRegs>>

\* main reads the gates of the cluster instead of the accessor's snapshot.
CurrentFeatureGatesFromCluster ==
    /\ UNCHANGED <<flagVars, stopFiredAt>>
    /\ pc = "readGates"
    /\ currentFeatureGates' = clusterGates
    /\ gatesRead' = TRUE
    /\ pc' = "branch"
    /\ UNCHANGED <<exitVars, err, taskVars, handlerInstalled, stopFired,
                   probeVars, featureGateAccessor, mgrRegs>>

\* currentFeatureGates, err := featureGateAccessor.CurrentFeatureGates()
\* which fails while no snapshot has been observed.
CurrentFeatureGates ==
    /\ UNCHANGED stopFiredAt
    /\ UNCHANGED flagVars
    /\ pc = "readGates"
    /\ IF initialObserved
       THEN /\ currentFeatureGates' = snapshot
            /\ gatesRead' = TRUE
            /\ pc' = "branch"
            /\ UNCHANGED <<exitVars, err, taskVars>>
       ELSE /\ Fail("read")
            /\ UNCHANGED <<currentFeatureGates, gatesRead>>
    /\ UNCHANGED <<handlerInstalled, stopFired, probeVars, featureGateAccessor,
                   mgrRegs>>

\* The gate is not consulted.
BranchAlwaysEnabled ==
    /\ UNCHANGED stopFiredAt
    /\ UNCHANGED flagVars
    /\ pc = "branch"
    /\ pc' = "addHealthz"
    /\ UNCHANGED <<exitVars, err, handlerInstalled, stopFired, taskVars,
                   probeVars, gateVars, mgrRegs>>

\* if !currentFeatureGates.Enabled(features.FeatureGateMachineAPIMigration)
Branch ==
    /\ UNCHANGED stopFiredAt
    /\ UNCHANGED flagVars
    /\ pc = "branch"
    /\ pc' = IF MachineAPIMigration \in currentFeatureGates
             THEN "addHealthz"
             ELSE "idle"
    /\ UNCHANGED <<exitVars, err, handlerInstalled, stopFired, taskVars,
                   probeVars, gateVars, mgrRegs>>

\* The wait on stop.Done() is missing.
IdleExitNoWait ==
    /\ UNCHANGED stopFiredAt
    /\ UNCHANGED flagVars
    /\ pc = "idle"
    /\ Exit(0)
    /\ UNCHANGED <<err, handlerInstalled, stopFired, probeVars, gateVars,
                   mgrRegs>>

\* The idle path exits with code 1.
IdleExitCodeOne ==
    /\ UNCHANGED <<flagVars, stopFiredAt>>
    /\ pc = "idle"
    /\ stopFired
    /\ Exit(1)
    /\ UNCHANGED <<err, handlerInstalled, stopFired, probeVars, gateVars,
                   mgrRegs>>

\* <-stop.Done(); os.Exit(0)
IdleExit ==
    /\ UNCHANGED stopFiredAt
    /\ UNCHANGED flagVars
    /\ pc = "idle"
    /\ stopFired
    /\ Exit(0)
    /\ UNCHANGED <<err, handlerInstalled, stopFired, probeVars, gateVars,
                   mgrRegs>>

\* mgr.AddHealthzCheck("health", healthz.Ping)
AddHealthzCheck ==
    /\ UNCHANGED stopFiredAt
    /\ UNCHANGED flagVars
    /\ pc = "addHealthz"
    /\ \E ok \in BOOLEAN :
          IF ok
          THEN /\ healthzChecks' = healthzChecks \cup {"health"}
               /\ pc' = "addReadyz"
               /\ UNCHANGED <<exitVars, err, taskVars>>
          ELSE /\ Fail("healthz")
               /\ UNCHANGED healthzChecks
    /\ UNCHANGED <<handlerInstalled, stopFired, probeVars, gateVars,
                   mgrConstructed, readyzChecks>>

\* The error of AddReadyzCheck is logged and startup continues.
AddReadyzCheckContinue ==
    /\ UNCHANGED stopFiredAt
    /\ UNCHANGED flagVars
    /\ pc = "addReadyz"
    /\ \E ok \in BOOLEAN :
          /\ readyzChecks' = IF ok THEN readyzChecks \cup {"check"}
                                   ELSE readyzChecks
          /\ err' = IF ok THEN err ELSE "readyz"
    /\ pc' = "start"
    /\ UNCHANGED <<exitVars, handlerInstalled, stopFired, taskVars, probeVars,
                   gateVars, mgrConstructed, healthzChecks>>

\* mgr.AddReadyzCheck("check", healthz.Ping)
AddReadyzCheck ==
    /\ UNCHANGED stopFiredAt
    /\ UNCHANGED flagVars
    /\ pc = "addReadyz"
    /\ \E ok \in BOOLEAN :
          IF ok
          THEN /\ readyzChecks' = readyzChecks \cup {"check"}
               /\ pc' = "start"
               /\ UNCHANGED <<exitVars, err, taskVars>>
          ELSE /\ Fail("readyz")
               /\ UNCHANGED readyzChecks
    /\ UNCHANGED <<handlerInstalled, stopFired, probeVars, gateVars,
                   mgrConstructed, healthzChecks>>

\* The probe server is started only once the lease is held.
MgrStartServeAfterElection ==
    /\ UNCHANGED stopFiredAt
    /\ UNCHANGED flagVars
    /\ pc = "start"
    /\ pc' = "running"
    /\ UNCHANGED <<exitVars, err, handlerInstalled, stopFired, taskVars,
                   probeVars, gateVars, mgrRegs>>

\* mgr.Start is handed a fresh signal context instead of `stop`.
MgrStartFreshContext ==
    /\ UNCHANGED <<flagVars, stopFiredAt>>
    /\ pc = "start"
    /\ stopFired' = FALSE
    /\ probeServing' = TRUE
    /\ pc' = "running"
    /\ UNCHANGED <<exitVars, err, handlerInstalled, accessorRunning,
                   informersRunning, leader, probeVars, gateVars, mgrRegs>>

\* mgr.Start(stop) is entered: the manager serves its health probes and
\* starts campaigning for the lease.
MgrStart ==
    /\ UNCHANGED stopFiredAt
    /\ UNCHANGED flagVars
    /\ pc = "start"
    /\ probeServing' = TRUE
    /\ pc' = "running"
    /\ UNCHANGED <<exitVars, err, handlerInstalled, stopFired,
                   accessorRunning, informersRunning, leader, probeVars,
                   gateVars, mgrRegs>>

\* The manager acquires the lease; reconcilers run from here on.
AcquireLeadership ==
    /\ UNCHANGED stopFiredAt
    /\ UNCHANGED flagVars
    /\ pc = "running"
    /\ ~stopFired
    /\ ~leader
    /\ leader' = TRUE
    /\ UNCHANGED <<pc, exitVars, err, handlerInstalled, stopFired,
                   accessorRunning, informersRunning, probeServing, probeVars,
                   gateVars, mgrRegs>>

\* mgr.Start returns nil although `stop` is not cancelled.
MgrStartReturnsNilEarly ==
    /\ UNCHANGED stopFiredAt
    /\ UNCHANGED flagVars
    /\ pc = "running"
    /\ Exit(0)
    /\ UNCHANGED <<err, handlerInstalled, stopFired, probeVars, gateVars,
                   mgrRegs>>

\* `stop` is cancelled: mgr.Start returns nil and main returns (exit code 0).
MgrStartReturnsNil ==
    /\ UNCHANGED stopFiredAt
    /\ UNCHANGED flagVars
    /\ pc = "running"
    /\ stopFired
    /\ Exit(0)
    /\ UNCHANGED <<err, handlerInstalled, stopFired, probeVars, gateVars,
                   mgrRegs>>

\* The manager is rebuilt and started again after a runtime error.
MgrStartReturnsErrRetry ==
    /\ UNCHANGED stopFiredAt
    /\ UNCHANGED flagVars
    /\ pc = "running"
    /\ err' = "runtime"
    /\ pc' = "configured"
    /\ UNCHANGED <<exitVars, handlerInstalled, stopFired, taskVars, probeVars,
                   gateVars, mgrRegs>>

\* mgr.Start returns an error: klog.Error(err, "problem running manager"); os.Exit(1)
MgrStartReturnsErr ==
    /\ UNCHANGED stopFiredAt
    /\ UNCHANGED flagVars
    /\ pc = "running"
    /\ Fail("runtime")
    /\ UNCHANGED <<handlerInstalled, stopFired, probeVars, gateVars, mgrRegs>>

Next ==
    \/ ParseFlags
    \/ NewManager
    \/ SetupSignalHandler
    \/ Signal
    \/ NewForConfig
    \/ StartBackgroundTasks
    \/ SelectEnter
    \/ TimerTick
    \/ SelectReturn
    \/ ClusterChange
    \/ AccessorInitialSync
    \/ AccessorChangeExit
    \/ CheckProbeErr
    \/ CurrentFeatureGates
    \/ Branch
    \/ IdleExit
    \/ AddHealthzCheck
    \/ AddReadyzCheck
    \/ MgrStart
    \/ AcquireLeadership
    \/ MgrStartReturnsNil
    \/ MgrStartReturnsErr

Spec == Init /\ [][Next]_vars

\* The steps of main: the scheduler runs the main goroutine whenever it can
\* take a step.  In Running the step that is certain to come is the return
\* of mgr.Start once `stop` is cancelled.
MainStep ==
    \/ ParseFlags
    \/ NewManager
    \/ SetupSignalHandler
    \/ NewForConfig
    \/ StartBackgroundTasks
    \/ SelectEnter
    \/ SelectReturn
    \/ CheckProbeErr
    \/ CurrentFeatureGates
    \/ Branch
    \/ IdleExit
    \/ AddHealthzCheck
    \/ AddReadyzCheck
    \/ MgrStart
    \/ MgrStartReturnsNil

\* Time passes and main is scheduled.  Nothing is assumed of the signal, of
\* the cluster or of the accessor: the config plane may never answer.
FairSpec == Spec /\ WF_vars(TimerTick) /\ WF_vars(MainStep)

TypeOK ==
    /\ pc \in {"init", "parsed", "configured", "probeClient", "probeSpawn", "probeSelect",
               "probeWait", "probeReturned", "readGates", "branch", "idle",
               "addHealthz", "addReadyz", "start", "running", "exited"}
    /\ exitCode \in {NoExit, 0, 1}
    /\ exitFrom \in {"none", "parsed", "probeReturned", "readGates", "probeSelect",
                     "probeWait", "branch", "idle", "addHealthz", "addReadyz",
                     "start", "running"}
    /\ (pc = "exited") = (exitCode # NoExit)
    /\ (pc = "exited") = (exitFrom # "none")
    /\ err \in {"none", "manager", "config", "timeout", "read", "healthz",
                "readyz", "runtime"}
    /\ elapsed \in 0..Timeout
    /\ selected \in {"none", "observed", "timeout"}
    /\ featureGateAccessor \in {"nil", "accessor"}
    /\ snapshot \subseteq Features
    /\ clusterGates \subseteq Features
    /\ currentFeatureGates \subseteq Features
    /\ healthzChecks \subseteq {"health"}
    /\ readyzChecks \subseteq {"check"}
    /\ leaderElectionConfig \in CommandLines
    /\ mgrOptions \in {NoOptions} \cup {ManagerOptions(c) : c \in CommandLines}

\* /healthz and /readyz answer: the manager serves them, and every registered
\* check is healthz.Ping, which always succeeds.
HealthzResponds == probeServing
ReadyzResponds == probeServing

(***************************************************************************)
(* Properties                                                              *)
(***************************************************************************)

\* main has read a snapshot in which MachineAPIMigration is disabled / enabled
GateReadDisabled == gatesRead /\ MachineAPIMigration \notin currentFeatureGates
GateReadEnabled == gatesRead /\ MachineAPIMigration \in currentFeatureGates

\* C1: when the snapshot read by main has MachineAPIMigration disabled, the
\* manager is never started: main never reaches the registration of the
\* checks nor mgr.Start, no check is registered, the manager neither serves
\* nor leads, and once the process has exited its exit code is 0.
C1_DisabledNeverStarts ==
    GateReadDisabled =>
        /\ pc \in {"branch", "idle", "exited"}
        /\ healthzChecks = {}
        /\ readyzChecks = {}
        /\ ~probeServing
        /\ ~leader
        /\ (pc = "exited" => exitCode = 0)

\* The gate was read as disabled, the signal fired in Idle and the process
\* has exited with code 0.
C1_Witness ==
    /\ GateReadDisabled
    /\ stopFired
    /\ snapshot = currentFeatureGates
    /\ pc = "exited"
    /\ exitCode = 0

\* C2: whenever the manager's event loop has been entered (or is about to
\* be), the liveness check "health" and the readiness check "check" are
\* both registered.
C2_ChecksBeforeStart ==
    (pc \in {"start", "running"} \/ probeServing \/ leader) =>
        /\ "health" \in healthzChecks
        /\ "check" \in readyzChecks

\* The gate is enabled and the manager is running with both checks.
C2_Witness ==
    /\ GateReadEnabled
    /\ pc = "running"
    /\ healthzChecks = {"health"}
    /\ readyzChecks = {"check"}

\* C3: main is in one of its blocking waits (the select of the probe, the
\* wait on stop.Done(), mgr.Start) only when the signal handler is installed.
C3_HandlerBeforeWaits ==
    pc \in {"probeWait", "idle", "running"} => handlerInstalled

\* main is parked in the select of the probe, with the handler installed.
C3_Witness ==
    /\ pc = "probeWait"
    /\ selected = "none"
    /\ elapsed > 0
    /\ handlerInstalled

\* getFeatureGates has returned to main
ProbeReturned == featureGateAccessor = "accessor" \/ err \in {"config", "timeout"}

\* C4: once getFeatureGates has returned, its error is the timeout error
\* exactly when the 60 seconds elapsed with no initial observation before
\* the deadline; it returns the accessor only after an observation, and the
\* error of a failed config client is not the timeout error (the wait was
\* never entered).
C4_TimeoutIff ==
    /\ ProbeReturned =>
           ((err = "timeout") <=> (elapsed = Timeout /\ ~observedInTime))
    /\ featureGateAccessor = "accessor" => (initialObserved /\ observedInTime)
    /\ err = "timeout" => featureGateAccessor = "nil"
    /\ err = "config" => (~timerStarted /\ featureGateAccessor = "nil")

\* The probe has returned the timeout error at the deadline.
C4_Witness ==
    /\ pc = "probeReturned"
    /\ err = "timeout"
    /\ elapsed = Timeout
    /\ ~initialObserved

\* C5: the manager is started only after the probe has returned the
\* accessor, that is after the initial observation, and after main has read
\* the snapshot.
C5_ProbeBeforeStart ==
    (pc \in {"start", "running"} \/ probeServing \/ leader) =>
        /\ initialObserved
        /\ featureGateAccessor = "accessor"
        /\ gatesRead

\* The manager leads, after an observed snapshot.
C5_Witness ==
    /\ pc = "running"
    /\ leader
    /\ initialObserved
    /\ featureGateAccessor = "accessor"

\* main is on the path of the enabled gate
EnabledPcs == {"addHealthz", "addReadyz", "start", "running"}

\* C6 as stated: the process exits with code 0 only on a shutdown signal in
\* the Idle or the Running branch, and with code 1 exactly after a failure.
C6_Original ==
    pc = "exited" =>
        /\ exitCode = 0 => (exitFrom \in {"idle", "running"} /\ stopFired)
        /\ exitCode = 1 <=> err # "none"

\* C6 amended: every exit is one of three: code 0 from Idle or Running after
\* the shutdown signal, with no error; code 0 by the accessor on a change
\* of the observed gates after the initial observation; code 1 together
\* with or after an error received by main.  After an error main runs no
\* later stage and does not retry: the error stays, and main stays where it
\* is until the process exits.
C6_ExitCodes ==
    [][/\ (pc # "exited" /\ pc' = "exited") =>
            \/ /\ exitCode' = 0
               /\ pc \in {"idle", "running"}
               /\ stopFired
               /\ err' = "none"
               /\ snapshot' = snapshot
            \/ /\ exitCode' = 0
               /\ initialObserved
               /\ snapshot' # snapshot
            \/ /\ exitCode' = 1
               /\ err' # "none"
               /\ snapshot' = snapshot
       /\ err # "none" => (err' = err /\ pc' \in {pc, "exited"})
       /\ err' # "none" => pc' \in {"probeReturned", "exited"}
      ]_vars

\* The registration of the readiness check failed: exit code 1, and the
\* manager was never started.
C6_Witness ==
    /\ pc = "exited"
    /\ exitFrom = "addReadyz"
    /\ err = "readyz"
    /\ exitCode = 1
    /\ ~stopFired

\* C7 as stated: the process leaves Idle only when the shutdown signal has
\* fired.
C7_Original ==
    exitFrom = "idle" => stopFired

\* C7 amended: the process leaves Idle only by exiting with code 0, either
\* by main once the shutdown signal has fired, or by the accessor on a
\* change of the observed gates.
C7_IdleExits ==
    [][(pc = "idle" /\ pc' # "idle") =>
          /\ pc' = "exited"
          /\ exitCode' = 0
          /\ \/ stopFired /\ snapshot' = snapshot
             \/ snapshot' # snapshot
      ]_vars

\* The process left Idle through the accessor, with no signal.
C7_Witness ==
    /\ exitFrom = "idle"
    /\ exitCode = 0
    /\ ~stopFired
    /\ snapshot # currentFeatureGates

\* C8 as stated: the process leaves Running only after the shutdown signal
\* (exit code 0) or with a runtime error of the manager (exit code 1).
C8_Original ==
    exitFrom = "running" =>
        \/ stopFired /\ exitCode = 0
        \/ err = "runtime" /\ exitCode = 1

\* C8 amended: the process leaves Running only by exiting: with code 0 when
\* mgr.Start returns nil after the shutdown signal, with code 1 when
\* mgr.Start returns an error, or with code 0 by the accessor on a change of
\* the observed gates.
C8_RunningExits ==
    [][(pc = "running" /\ pc' # "running") =>
          /\ pc' = "exited"
          /\ \/ stopFired /\ exitCode' = 0 /\ err' = "none" /\ snapshot' = snapshot
             \/ err' = "runtime" /\ exitCode' = 1 /\ snapshot' = snapshot
             \/ exitCode' = 0 /\ err' = "none" /\ snapshot' # snapshot
      ]_vars

\* The manager returned an error before any signal.
C8_Witness ==
    /\ exitFrom = "running"
    /\ err = "runtime"
    /\ exitCode = 1
    /\ ~stopFired

\* C9: after the initial observation, every change of the gates observed by
\* the accessor ends the process with exit code 0, wherever main is; and
\* main never moves between Idle and the path of the enabled gate.
C9_ExitOnChange ==
    [][/\ (initialObserved /\ snapshot' # snapshot) =>
            (pc' = "exited" /\ exitCode' = 0)
       /\ ~(pc = "idle" /\ pc' \in EnabledPcs)
       /\ ~(pc \in EnabledPcs /\ pc' = "idle")
      ]_vars

\* The gate main read as enabled was switched off while the manager was
\* running, and the process exited with code 0.
C9_Witness ==
    /\ exitFrom = "running"
    /\ exitCode = 0
    /\ MachineAPIMigration \in currentFeatureGates
    /\ MachineAPIMigration \notin snapshot
    /\ ~stopFired

\* C10 as stated: from the construction of the manager on, /healthz and
\* /readyz respond successfully.
C10_Original ==
    (mgrConstructed /\ pc # "exited") => (HealthzResponds /\ ReadyzResponds)

\* C10 amended: /healthz and /readyz respond successfully in every state in
\* which the manager is running, with both checks registered, whether or
\* not the lease is held; they do not respond before mgr.Start (not during
\* the probe, not in Idle).
C10_RespondWhileRunning ==
    /\ pc = "running" =>
           /\ HealthzResponds
           /\ ReadyzResponds
           /\ "health" \in healthzChecks
           /\ "check" \in readyzChecks
    /\ pc # "running" => (~HealthzResponds /\ ~ReadyzResponds)

\* The manager is running and answers its probes without holding the lease.
C10_Witness ==
    /\ pc = "running"
    /\ ~leader
    /\ HealthzResponds
    /\ ReadyzResponds

\* C11 as stated: whatever the command line, the manager is built with leader
\* election enabled, the lease machine-api-migration-leader in the namespace
\* openshift-cluster-api, and retry < renew < lease.
C11_Original ==
    mgrConstructed =>
        /\ mgrOptions.LeaderElection
        /\ mgrOptions.LeaderElectionID = "machine-api-migration-leader"
        /\ mgrOptions.LeaderElectionNamespace = "openshift-cluster-api"
        /\ mgrOptions.RetryPeriod < mgrOptions.RenewDeadline
        /\ mgrOptions.RenewDeadline < mgrOptions.LeaseDuration

\* C11 amended: the manager is built with exactly the leader-election values
\* leaderElectionConfig holds after the flags are parsed; with no
\* leader-election flag on the command line these are: enabled, the lease
\* machine-api-migration-leader in openshift-cluster-api, and the default
\* durations, which satisfy retry < renew < lease.
C11_OptionsFollowFlags ==
    mgrConstructed =>
        /\ mgrOptions = ManagerOptions(leaderElectionConfig)
        /\ leaderElectionConfig = DefaultLeaderElectionConfig =>
               /\ mgrOptions.LeaderElection
               /\ mgrOptions.LeaderElectionID = "machine-api-migration-leader"
               /\ mgrOptions.LeaderElectionNamespace = "openshift-cluster-api"
               /\ mgrOptions.RetryPeriod < mgrOptions.RenewDeadline
               /\ mgrOptions.RenewDeadline < mgrOptions.LeaseDuration

\* The manager was built from a command line with no leader-election flag.
C11_Witness ==
    /\ mgrConstructed
    /\ pc = "configured"
    /\ leaderElectionConfig = DefaultLeaderElectionConfig
    /\ mgrOptions.LeaderElection
    /\ mgrOptions.LeaseDuration = LeaseDuration

\* The states of the lifecycle
Phase(p) ==
    CASE p \in {"init", "parsed"} -> "Init"
      [] p = "configured" -> "Configured"
      [] p \in {"probeClient", "probeSpawn", "probeSelect", "probeWait",
                "probeReturned", "readGates", "branch"} -> "ProbeWaiting"
      [] p = "idle" -> "Idle"
      [] p \in EnabledPcs -> "Running"
      [] p = "exited" -> "Terminated"

\* The position of a state in Init -> Configured -> ProbeWaiting ->
\* {Idle | Running} -> Terminated
Rank(ph) ==
    CASE ph = "Init" -> 0
      [] ph = "Configured" -> 1
      [] ph = "ProbeWaiting" -> 2
      [] ph \in {"Idle", "Running"} -> 3
      [] ph = "Terminated" -> 4

\* C13: every step that changes the state of the lifecycle enters the next
\* state of Init -> Configured -> ProbeWaiting -> {Idle | Running} ->
\* Terminated, or Terminated; so no state is revisited and at most one of
\* Idle and Running is entered.  Idle and Running are entered only from
\* ProbeWaiting, with the accessor returned, the snapshot read and no error.
\* Terminated is never left.
C13_Lifecycle ==
    [][/\ Phase(pc') # Phase(pc) =>
            \/ Phase(pc') = "Terminated"
            \/ Rank(Phase(pc')) = Rank(Phase(pc)) + 1
       /\ (Phase(pc') # Phase(pc) /\ Phase(pc') \in {"Idle", "Running"}) =>
            /\ Phase(pc) = "ProbeWaiting"
            /\ featureGateAccessor = "accessor"
            /\ gatesRead
            /\ err = "none"
       /\ pc = "exited" => pc' = "exited"
      ]_vars

\* A run through Running that ended with the shutdown signal.
C13_Witness ==
    /\ pc = "exited"
    /\ exitFrom = "running"
    /\ stopFired
    /\ exitCode = 0
    /\ err = "none"
    /\ snapshot = currentFeatureGates

\* C14: once `stop` is cancelled it stays cancelled, so a signal that fired
\* before main reached its wait is still seen there: in Idle the wait on
\* stop.Done() can return, and in Running mgr.Start can return, with no
\* further signal.
C14_SignalStaysFired ==
    /\ [][stopFired => stopFired']_vars
    /\ []((pc = "idle" /\ stopFired) => ENABLED IdleExit)
    /\ []((pc = "running" /\ stopFired) => ENABLED MgrStartReturnsNil)

\* The signal fired while the probe was waiting, and main later left Idle
\* on it.
C14_Witness ==
    /\ stopFiredAt = "probeWait"
    /\ exitFrom = "idle"
    /\ exitCode = 0
    /\ snapshot = currentFeatureGates

\* C15 as stated: from the wait of the probe, getFeatureGates always
\* eventually returns to main, with the accessor or with the timeout error.
C15_Original ==
    (pc = "probeWait") ~> ProbeReturned

\* C15 amended: the wait of the probe always ends: getFeatureGates returns
\* the accessor or the timeout error, or the process has exited.
C15_WaitIsBounded ==
    (pc = "probeWait") ~> (ProbeReturned \/ pc = "exited")

\* The config plane never answered and the probe returned at the deadline.
C15_Witness ==
    /\ ProbeReturned
    /\ err = "timeout"
    /\ elapsed = Timeout
    /\ ~initialObserved
    /\ snapshot = {}
    /\ exitFrom = "probeReturned"

\* main is past the two `go` statements of getFeatureGates
TasksStarted ==
    \/ pc \in {"probeSelect", "probeWait", "readGates", "branch", "idle"}
    \/ pc \in EnabledPcs
    \/ pc = "probeReturned" /\ err # "config"

\* C16: once started, the accessor task and the informer task run in every
\* state in which the process lives, whether or not `stop` is cancelled and
\* whether or not the probe timed out; a task stops only in the step in
\* which the process exits.
C16_TasksOutliveSignal ==
    /\ [](TasksStarted => (accessorRunning /\ informersRunning))
    /\ [][((accessorRunning /\ ~accessorRunning')
             \/ (informersRunning /\ ~informersRunning')) => pc' = "exited"]_vars

\* The signal has fired and the probe has timed out; both tasks still run.
C16_Witness ==
    /\ stopFired
    /\ err = "timeout"
    /\ pc = "probeReturned"
    /\ accessorRunning
    /\ informersRunning

\* C17: once `stop` is cancelled the process eventually exits; main leaves
\* the wait of the probe only when the observation or the timer has claimed
\* the select, never on the signal; and after a signal the exit code is 0
\* unless the probe failed or timed out or a call on the manager returned an
\* error.
C17_SignalTerminates ==
    /\ stopFired ~> (pc = "exited")
    /\ [][(pc = "probeWait" /\ pc' # "probeWait") => selected # "none"]_vars
    /\ []((pc = "exited" /\ stopFired /\ exitCode # 0) =>
             err \in {"config", "timeout", "healthz", "readyz", "runtime"})

\* The signal fired while the probe was waiting; the manager was still
\* started and then returned on the signal.
C17_Witness ==
    /\ stopFiredAt = "probeWait"
    /\ pc = "exited"
    /\ exitFrom = "running"
    /\ exitCode = 0
    /\ err = "none"

\* C18: while main is on the path of the enabled gate the accessor's
\* snapshot has MachineAPIMigration enabled, and while main is in Idle the
\* snapshot has it disabled; in both, the snapshot is still the one main read.
C18_BranchAgreesWithSnapshot ==
    /\ pc \in EnabledPcs =>
           (MachineAPIMigration \in snapshot /\ snapshot = currentFeatureGates)
    /\ pc = "idle" =>
           (MachineAPIMigration \notin snapshot /\ snapshot = currentFeatureGates)

\* The manager is running on an enabled snapshot while the cluster has
\* already switched the gate off.
C18_Witness ==
    /\ pc = "running"
    /\ MachineAPIMigration \in snapshot
    /\ MachineAPIMigration \notin clusterGates
    /\ leader

====
